---- MODULE Spec2Model ----
(***************************************************************************)
(* content-flux: the content creation workflow of ContentCreatorAgent.    *)
(*                                                                         *)
(* The agent is constructed (tool registry, Notion MCP handshake, Portia), *)
(* then run_content_creation_workflow resolves one topic, synthesizes a    *)
(* content record with two plan runs (research, generation) and persists   *)
(* it to Notion and to local files.  Portia (the execution service) and    *)
(* the file system are the environment: every portia.run_plan call returns *)
(* some result object or raises, chosen nondeterministically.              *)
(*                                                                         *)
(* Python strings are sequences of one-character strings, so that len,     *)
(* strip, split, startswith and slicing are computed, not assumed.         *)
(***************************************************************************)
EXTENDS Integers, Sequences, FiniteSets, TLC

(***************************************************************************)
(* Bounds of the model.                                                    *)
(***************************************************************************)
\* the bodies of the texts returned by a plan run are empty or have from one
\* character less than the length threshold to MaxExtra characters more than that
MaxExtra == 1
\* most newlines that follow a body one short of the threshold, or just at it
MaxPad == 1

(***************************************************************************)
(* Program constants.                                                      *)
(***************************************************************************)
\* content_services.py:96   len(str(research_data).strip()) < 10
MinResearchLen == 10
\* content_services.py:121  len(str(content_text).strip()) < 20
MinContentLen == 20
\* content_services.py:131  content_text[:400]
TwitterSlice == 400
\* content_services.py:132  content_text[:250]
LinkedinSlice == 250

(***************************************************************************)
(* Python str operations on sequences of characters.                       *)
(***************************************************************************)
NL == "\n"

\* the characters str.strip() removes
Whitespace == {" ", NL, "\t"}

Min(S) == CHOOSE x \in S : \A y \in S : x <= y

Max(S) == CHOOSE x \in S : \A y \in S : x >= y

\* c * n
Rep(c, n) == [i \in 1..n |-> c]

\* s[:n]
Slice(s, n) == SubSeq(s, 1, IF Len(s) < n THEN Len(s) ELSE n)

\* s.startswith(p)
StartsWith(s, p) == Len(p) <= Len(s) /\ SubSeq(s, 1, Len(p)) = p

\* index of the first c in s, 0 when absent
IndexOf(s, c) ==
    IF \E i \in 1..Len(s) : s[i] = c
    THEN Min({i \in 1..Len(s) : s[i] = c})
    ELSE 0

\* s.split(c, 1)[-1]
AfterFirst(s, c) ==
    IF IndexOf(s, c) = 0 THEN s ELSE SubSeq(s, IndexOf(s, c) + 1, Len(s))

\* s.split(c, 1)[0]
BeforeFirst(s, c) ==
    IF IndexOf(s, c) = 0 THEN s ELSE SubSeq(s, 1, IndexOf(s, c) - 1)

\* s.strip(chars)
StripChars(s, chars) ==
    LET keep == {i \in 1..Len(s) : s[i] \notin chars}
    IN  IF keep = {} THEN <<>> ELSE SubSeq(s, Min(keep), Max(keep))

\* s.rstrip(chars)
RStripChars(s, chars) ==
    LET keep == {i \in 1..Len(s) : s[i] \notin chars}
    IN  IF keep = {} THEN <<>> ELSE SubSeq(s, 1, Max(keep))

\* s.strip()
Strip(s) == StripChars(s, Whitespace)

\* s.split('\n')
RECURSIVE SplitLines(_)
SplitLines(s) ==
    IF IndexOf(s, NL) = 0 THEN <<s>>
    ELSE <<BeforeFirst(s, NL)>> \o SplitLines(AfterFirst(s, NL))

\* s.replace(c, r) for a single character c
RECURSIVE Replace(_, _, _)
Replace(s, c, r) ==
    IF s = <<>> THEN <<>>
    ELSE (IF Head(s) = c THEN r ELSE <<Head(s)>>) \o Replace(Tail(s), c, r)

\* "".join(c for c in s if keep(c))
RECURSIVE Filter(_, _)
Filter(s, keep) ==
    IF s = <<>> THEN <<>>
    ELSE (IF Head(s) \in keep THEN <<Head(s)>> ELSE <<>>) \o Filter(Tail(s), keep)

UpperLetters ==
    {"A","B","C","D","E","F","G","H","I","J","K","L","M",
     "N","O","P","Q","R","S","T","U","V","W","X","Y","Z"}

LowerLetters ==
    {"a","b","c","d","e","f","g","h","i","j","k","l","m",
     "n","o","p","q","r","s","t","u","v","w","x","y","z"}

DigitChars == {"0","1","2","3","4","5","6","7","8","9"}

LowerOf ==
    [c \in UpperLetters |->
        CASE c = "A" -> "a" [] c = "B" -> "b" [] c = "C" -> "c" [] c = "D" -> "d"
          [] c = "E" -> "e" [] c = "F" -> "f" [] c = "G" -> "g" [] c = "H" -> "h"
          [] c = "I" -> "i" [] c = "J" -> "j" [] c = "K" -> "k" [] c = "L" -> "l"
          [] c = "M" -> "m" [] c = "N" -> "n" [] c = "O" -> "o" [] c = "P" -> "p"
          [] c = "Q" -> "q" [] c = "R" -> "r" [] c = "S" -> "s" [] c = "T" -> "t"
          [] c = "U" -> "u" [] c = "V" -> "v" [] c = "W" -> "w" [] c = "X" -> "x"
          [] c = "Y" -> "y" [] c = "Z" -> "z"]

\* s.lower(): character by character; the capital I with a dot above, U+0130,
\* becomes two characters, an i and the combining dot above, U+0307
RECURSIVE Lower(_)
Lower(s) ==
    IF s = <<>> THEN <<>>
    ELSE (IF Head(s) \in UpperLetters THEN <<LowerOf[Head(s)]>>
          ELSE IF Head(s) = "<U+0130>" THEN <<"i", "<U+0307>">>
          ELSE <<Head(s)>>) \o Lower(Tail(s))

\* the characters with c.isalnum(): letters and digits (U+0307 is a mark, not a letter)
AlnumChars == UpperLetters \cup LowerLetters \cup DigitChars \cup {"<U+0130>"}

\* None, or a str
NoneVal == [some |-> FALSE, s |-> <<>>]

Some(s) == [some |-> TRUE, s |-> s]

(***************************************************************************)
(* String literals of the source.                                          *)
(***************************************************************************)
\* content_services.py:128  ' - Comprehensive Guide'
S_Guide ==
    <<" ","-"," ","C","o","m","p","r","e","h","e","n","s","i","v","e"," ","G","u","i","d","e">>

\* content_services.py:129  'Complete guide to '
S_CompleteGuideTo ==
    <<"C","o","m","p","l","e","t","e"," ","g","u","i","d","e"," ","t","o"," ">>

\* content_services.py:129  ' with latest trends, insights and practical applications'
S_WithLatestTrends ==
    <<" ","w","i","t","h"," ","l","a","t","e","s","t"," ","t","r","e","n","d","s",","," ","i",
      "n","s","i","g","h","t","s"," ","a","n","d"," ","p","r","a","c","t","i","c","a","l"," ",
      "a","p","p","l","i","c","a","t","i","o","n","s">>

\* content_services.py:131  'THREAD about '
S_ThreadAbout ==
    <<"T","H","R","E","A","D"," ","a","b","o","u","t"," ">>

\* content_services.py:131  ': Key insights and trends you need to know! '
S_KeyInsights ==
    <<":"," ","K","e","y"," ","i","n","s","i","g","h","t","s"," ","a","n","d"," ","t","r","e",
      "n","d","s"," ","y","o","u"," ","n","e","e","d"," ","t","o"," ","k","n","o","w","!"," ">>

\* content_services.py:131  '...'
S_Dots ==
    <<".",".",".">>

\* content_services.py:132  'Insights on '
S_InsightsOn ==
    <<"I","n","s","i","g","h","t","s"," ","o","n"," ">>

\* content_services.py:132  ': '
S_ColonSpace ==
    <<":"," ">>

\* content_services.py:132  '... What are your thoughts? #technology #innovation'
S_YourThoughts ==
    <<".",".","."," ","W","h","a","t"," ","a","r","e"," ","y","o","u","r"," ","t","h","o","u",
      "g","h","t","s","?"," ","#","t","e","c","h","n","o","l","o","g","y"," ","#","i","n","n",
      "o","v","a","t","i","o","n">>

\* content_services.py:133  'Everything you need to know about '
S_Everything ==
    <<"E","v","e","r","y","t","h","i","n","g"," ","y","o","u"," ","n","e","e","d"," ","t","o",
      " ","k","n","o","w"," ","a","b","o","u","t"," ">>

\* content_services.py:133  ' \U0001f4da\u2728 #tech #learning #innovation #'
S_IgTags ==
    <<" ","<U+1F4DA>","<U+2728>"," ","#","t","e","c","h"," ","#","l","e","a","r","n","i","n",
      "g"," ","#","i","n","n","o","v","a","t","i","o","n"," ","#">>

\* content_services.py:134  'technology'
S_technology ==
    <<"t","e","c","h","n","o","l","o","g","y">>

\* content_services.py:134  'trends'
S_trends ==
    <<"t","r","e","n","d","s">>

\* content_services.py:134  'innovation'
S_innovation ==
    <<"i","n","n","o","v","a","t","i","o","n">>

\* content_services.py:134  'guide'
S_guide ==
    <<"g","u","i","d","e">>

\* content_services.py:94  'No research data available'
S_NoResearchData ==
    <<"N","o"," ","r","e","s","e","a","r","c","h"," ","d","a","t","a"," ","a","v","a","i","l",
      "a","b","l","e">>

\* content_services.py:41  'AI Technology'
S_AITechnology ==
    <<"A","I"," ","T","e","c","h","n","o","l","o","g","y">>

\* content_services.py:41  'Machine Learning'
S_MachineLearning ==
    <<"M","a","c","h","i","n","e"," ","L","e","a","r","n","i","n","g">>

\* content_services.py:41  'Quantum Computing'
S_QuantumComputing ==
    <<"Q","u","a","n","t","u","m"," ","C","o","m","p","u","t","i","n","g">>

\* storage_services.py:47  'Notion storage skipped - invalid content data'
S_NotionSkippedInvalid ==
    <<"N","o","t","i","o","n"," ","s","t","o","r","a","g","e"," ","s","k","i","p","p","e","d",
      " ","-"," ","i","n","v","a","l","i","d"," ","c","o","n","t","e","n","t"," ","d","a","t",
      "a">>

\* storage_services.py:51  'Notion storage skipped - not available'
S_NotionSkippedNotAvailable ==
    <<"N","o","t","i","o","n"," ","s","t","o","r","a","g","e"," ","s","k","i","p","p","e","d",
      " ","-"," ","n","o","t"," ","a","v","a","i","l","a","b","l","e">>

\* storage_services.py:55  'Notion storage skipped - missing API key'
S_NotionSkippedMissingKey ==
    <<"N","o","t","i","o","n"," ","s","t","o","r","a","g","e"," ","s","k","i","p","p","e","d",
      " ","-"," ","m","i","s","s","i","n","g"," ","A","P","I"," ","k","e","y">>

\* storage_services.py:58  'Portia is not available - cannot save to Notion'
S_PortiaNotAvailableNotion ==
    <<"P","o","r","t","i","a"," ","i","s"," ","n","o","t"," ","a","v","a","i","l","a","b","l",
      "e"," ","-"," ","c","a","n","n","o","t"," ","s","a","v","e"," ","t","o"," ","N","o","t",
      "i","o","n">>

\* storage_services.py:78  'Page creation attempted'
S_PageCreationAttempted ==
    <<"P","a","g","e"," ","c","r","e","a","t","i","o","n"," ","a","t","t","e","m","p","t","e",
      "d">>

\* storage_services.py:80  'Notion page created: '
S_NotionPageCreated ==
    <<"N","o","t","i","o","n"," ","p","a","g","e"," ","c","r","e","a","t","e","d",":"," ">>

\* storage_services.py:84  'Notion storage failed: '
S_NotionStorageFailed ==
    <<"N","o","t","i","o","n"," ","s","t","o","r","a","g","e"," ","f","a","i","l","e","d",":",
      " ">>

\* storage_services.py:205  'Failed to save files: '
S_FailedToSaveFiles ==
    <<"F","a","i","l","e","d"," ","t","o"," ","s","a","v","e"," ","f","i","l","e","s",":"," ">>

\* content_agent.py:291  'Failed: '
S_Failed ==
    <<"F","a","i","l","e","d",":"," ">>

\* content_agent.py:293  'Skipped - Notion not available'
S_SkippedNotionNotAvailable ==
    <<"S","k","i","p","p","e","d"," ","-"," ","N","o","t","i","o","n"," ","n","o","t"," ","a",
      "v","a","i","l","a","b","l","e">>

\* storage_services.py:104  'content_'
S_content_ ==
    <<"c","o","n","t","e","n","t","_">>

\* storage_services.py:157  '.json'
S_json ==
    <<".","j","s","o","n">>

\* storage_services.py:165  '_article.md'
S_article_md ==
    <<"_","a","r","t","i","c","l","e",".","m","d">>

\* storage_services.py:172  '_twitter.txt'
S_twitter_txt ==
    <<"_","t","w","i","t","t","e","r",".","t","x","t">>

\* storage_services.py:178  '_linkedin.txt'
S_linkedin_txt ==
    <<"_","l","i","n","k","e","d","i","n",".","t","x","t">>

\* storage_services.py:184  '_instagram.txt'
S_instagram_txt ==
    <<"_","i","n","s","t","a","g","r","a","m",".","t","x","t">>

\* storage_services.py:195  '_seo.json'
S_seo_json ==
    <<"_","s","e","o",".","j","s","o","n">>

\* storage_services.py:167  '# '
S_Hash ==
    <<"#"," ">>

\* config.py:29  'generated_content'
S_generated_content ==
    <<"g","e","n","e","r","a","t","e","d","_","c","o","n","t","e","n","t">>

(***************************************************************************)
(* Inputs: the values the caller and the environment supply.               *)
(***************************************************************************)
\* an explicit topic: 'X'
T_X ==
    <<"X">>

\* an explicit topic: 'AI & Robots!!'
T_AIRobots ==
    <<"A","I"," ","&"," ","R","o","b","o","t","s","!","!">>

\* a discovery output: '1. Topic A\n2. Topic B: extra\n3. x'
D_Numbered ==
    <<"1","."," ","T","o","p","i","c"," ","A",NL,"2","."," ","T","o","p","i","c"," ","B",":",
      " ","e","x","t","r","a",NL,"3","."," ","x">>

\* a discovery output: '1. **AI**\n2) ## Chips ##'
D_Markdown ==
    <<"1","."," ","*","*","A","I","*","*",NL,"2",")"," ","#","#"," ","C","h","i","p","s"," ",
      "#","#">>

\* a discovery output: '1. Topic A\n2. Topic A'
D_Repeated ==
    <<"1","."," ","T","o","p","i","c"," ","A",NL,"2","."," ","T","o","p","i","c"," ","A">>

\* a discovery output: 'Trends are unclear today'
D_Prose ==
    <<"T","r","e","n","d","s"," ","a","r","e"," ","u","n","c","l","e","a","r"," ","t","o","d",
      "a","y">>

\* a discovery output: '10. Edge AI\n11. Web Assembly'
D_Eleven ==
    <<"1","0","."," ","E","d","g","e"," ","A","I",NL,"1","1","."," ","W","e","b"," ","A","s",
      "s","e","m","b","l","y">>

\* a discovery output: twelve lines, '1. Rust' to '12. Rust'
D_Rust ==
    <<"1","."," ","R","u","s","t",NL,"2","."," ","R","u","s","t",NL,"3","."," ","R","u","s","t",
      NL,"4","."," ","R","u","s","t",NL,"5","."," ","R","u","s","t",NL,"6","."," ","R","u","s",
      "t",NL,"7","."," ","R","u","s","t",NL,"8","."," ","R","u","s","t",NL,"9","."," ","R","u",
      "s","t",NL,"1","0","."," ","R","u","s","t",NL,"1","1","."," ","R","u","s","t",NL,"1","2",
      "."," ","R","u","s","t">>

\* str(e) of an exception raised by the environment
E_Timeout ==
    <<"t","i","m","e","o","u","t">>

\* str(result) of a result object
ReprText ==
    <<"P","l","a","n","R","u","n","(","s","t","a","t","e","=","C","O","M","P","L","E","T","E",
      ")">>

\* the output of an earlier step
S_StepOne ==
    <<"s","t","e","p"," ","o","n","e">>

\* datetime.now().strftime('%Y%m%d_%H%M%S')
Timestamp ==
    <<"2","0","2","5","0","1","0","1","_","1","2","0","0","0","0">>

\* a text as a plan run returns it: a body followed by newlines
Pad(s, r) == s \o Rep(NL, r)

\* the texts a plan run may return around the length threshold min
PlanTexts(min) ==
    {Rep("a", n) : n \in {0} \cup ((min - 1)..(min - 1 + MaxExtra))}
        \cup {Pad(Rep("a", n), r) : r \in 1..MaxPad, n \in {min - 1, min}}

\* the value of specific_topic: None or a topic (main.py:21 turns "" into None,
\* streamlit_app.py:154-161 passes a topic or nothing)
SpecificTopics == {NoneVal, Some(T_X), Some(T_AIRobots)}

\* the texts the discovery plan may return in a run
DiscoveryTexts == {<<>>, D_Numbered, D_Markdown, D_Rust}

\* the topics save_content_locally derives a stem from: 'X', 'AI & Robots!!',
\* 'What is AI ?', 'Edge-AI_2025 ', U+0130 + 'stanbul', and one of 49 a's, a
\* space and 10 b's
StemTopics ==
    {T_X, T_AIRobots,
     <<"W","h","a","t"," ","i","s"," ","A","I"," ","?">>,
     <<"E","d","g","e","-","A","I","_","2","0","2","5"," ">>,
     <<"<U+0130>","s","t","a","n","b","u","l">>,
     Rep("a", 49) \o <<" ">> \o Rep("b", 10)}

\* the texts _extract_topics_from_text is applied to
ParseTexts == DiscoveryTexts \cup {D_Repeated, D_Prose, D_Eleven, ReprText}

\* str(e) of the exceptions the environment raises
ExcMsgs == {E_Timeout}

(***************************************************************************)
(* The result object of portia.run_plan, as far as the code probes it:     *)
(* is_none (the result is None or falsy), has_outputs (it has a truthy     *)
(* attribute outputs), final_output (outputs.final_output is present and   *)
(* truthy, and its .value: None or a str), steps (outputs.steps, each item *)
(* its .output: None or a str) and repr (str(result)).                     *)
(***************************************************************************)
NoFinalOutput == [present |-> FALSE, value |-> NoneVal]

FinalOutput(v) == [present |-> TRUE, value |-> v]

NoneResult ==
    [is_none |-> TRUE, has_outputs |-> FALSE, final_output |-> NoFinalOutput,
     steps |-> <<>>, repr |-> <<>>]

RawResult(t) ==
    [is_none |-> FALSE, has_outputs |-> FALSE, final_output |-> NoFinalOutput,
     steps |-> <<>>, repr |-> t]

FinalResult(v, steps) ==
    [is_none |-> FALSE, has_outputs |-> TRUE, final_output |-> FinalOutput(v),
     steps |-> steps, repr |-> ReprText]

StepsResult(steps) ==
    [is_none |-> FALSE, has_outputs |-> TRUE, final_output |-> NoFinalOutput,
     steps |-> steps, repr |-> ReprText]

\* the result objects whose texts are drawn from T
ResultsOver(T) ==
    {NoneResult, FinalResult(NoneVal, <<>>), StepsResult(<<>>), StepsResult(<<NoneVal>>)}
      \cup {RawResult(t) : t \in T}
      \cup {FinalResult(Some(t), <<Some(S_StepOne)>>) : t \in T}
      \cup {StepsResult(<<Some(S_StepOne), Some(t)>>) : t \in T}

\* what portia.run_plan does: it raises an exception or returns a result
Outcomes(T) ==
    {[raises |-> TRUE, msg |-> m, result |-> NoneResult] : m \in ExcMsgs}
      \cup {[raises |-> FALSE, msg |-> <<>>, result |-> r] : r \in ResultsOver(T)}

\* the attribute probing of a result: the text found, or None
OutputOf(result) ==
    IF ~result.is_none /\ result.has_outputs
    THEN IF result.final_output.present
         THEN result.final_output.value
         ELSE IF result.steps # <<>>
              THEN LET last_step == result.steps[Len(result.steps)]
                   IN  IF last_step.some /\ last_step.s # <<>> THEN last_step ELSE NoneVal
              ELSE NoneVal
    ELSE NoneVal

\* ... and, when nothing was found, str(result) if result else placeholder
ExtractResult(result, placeholder) ==
    IF OutputOf(result).some
    THEN OutputOf(result).s
    ELSE IF ~result.is_none THEN result.repr ELSE placeholder

(***************************************************************************)
(* content_services.py: _extract_topics_from_text                          *)
(***************************************************************************)
\* range(1, 20): the item numbers a line may start with, upper end excluded
NumberRangeEnd == 20
\* len(topic) > 3
MinTopicLen == 3
\* len(topic) <= 80
MaxTopicLen == 80
\* topics[:10]
TopN == 10

\* f"{i}" for 0 <= i < 100
Decimal(i) ==
    LET digit == <<"0","1","2","3","4","5","6","7","8","9">>
    IN  IF i < 10 THEN <<digit[i + 1]>>
        ELSE <<digit[(i \div 10) + 1], digit[(i % 10) + 1]>>

\* line and any(line.startswith(f"{i}.") or line.startswith(f"{i})") for i in range(1, 20))
IsNumberedLine(line) ==
    /\ line # <<>>
    /\ \E i \in 1..(NumberRangeEnd - 1) :
          \/ StartsWith(line, Decimal(i) \o <<".">>)
          \/ StartsWith(line, Decimal(i) \o <<")">>)

\* the topic of a numbered line, cleaned up
TopicOfLine(line) ==
    LET after == Strip(AfterFirst(AfterFirst(line, "."), ")"))
        head  == IF IndexOf(after, ":") # 0 THEN Strip(BeforeFirst(after, ":")) ELSE after
    IN  StripChars(head, {" ", ",", ".", ";", ":", "-"})

\* the loop over the lines: the accepted topics, in order
RECURSIVE TopicsOfLines(_)
TopicsOfLines(lines) ==
    IF lines = <<>> THEN <<>>
    ELSE LET line  == Strip(Head(lines))
             topic == TopicOfLine(line)
         IN  (IF /\ IsNumberedLine(line)
                 /\ Len(topic) > MinTopicLen
                 /\ Len(topic) <= MaxTopicLen
              THEN <<topic>> ELSE <<>>) \o TopicsOfLines(Tail(lines))

FallbackTopics == <<S_AITechnology, S_MachineLearning, S_QuantumComputing>>

_extract_topics_from_text(topics_text) ==
    LET topics == TopicsOfLines(SplitLines(topics_text))
    IN  IF topics = <<>> THEN FallbackTopics ELSE Slice(topics, TopN)

\* mutant: an exception of the plan run gives no topics
research_trending_topics_NoFallback(outcome) ==
    IF outcome.raises
    THEN <<>>
    ELSE _extract_topics_from_text(ExtractResult(outcome.result, <<>>))

\* research_trending_topics, given what portia.run_plan did
research_trending_topics(outcome) ==
    IF outcome.raises
    THEN FallbackTopics
    ELSE _extract_topics_from_text(ExtractResult(outcome.result, <<>>))

(***************************************************************************)
(* content_agent.py: topic selection after discovery (lines 226-268)       *)
(***************************************************************************)
\* len(trending_topics.strip()) < 10
MinDiscoveryLen == 10
\* len(topic.strip()) < 5
MinSelectedLen == 5

\* [str(topic).strip() for topic in trending_topics if str(topic).strip()]
RECURSIVE clean_topics(_)
clean_topics(trending_topics) ==
    IF trending_topics = <<>> THEN <<>>
    ELSE (IF Strip(Head(trending_topics)) # <<>>
          THEN <<Strip(Head(trending_topics))>> ELSE <<>>)
         \o clean_topics(Tail(trending_topics))

\* the topics random.choice may return (or the first topic, when none is clean)
TopicChoices(trending_topics) ==
    IF clean_topics(trending_topics) # <<>>
    THEN {clean_topics(trending_topics)[i] : i \in 1..Len(clean_topics(trending_topics))}
    ELSE {Strip(trending_topics[1])}

\* not topic or len(topic.strip()) < 5
InvalidTopic(topic) == topic = <<>> \/ Len(Strip(topic)) < MinSelectedLen

\* mutant: the final strip() is missing
CleanMarkdown_NoStrip(topic) == Replace(Replace(topic, "*", <<>>), "#", <<>>)

\* topic.replace('*', '').replace('#', '').strip()
CleanMarkdown(topic) == Strip(Replace(Replace(topic, "*", <<>>), "#", <<>>))

(***************************************************************************)
(* content_services.py: generate_content                                   *)
(***************************************************************************)
\* mutant: only an empty research text is refused
InsufficientResearch_EmptyOnly(research_data) == research_data = <<>>

\* not research_data or len(str(research_data).strip()) < 10
InsufficientResearch(research_data) ==
    research_data = <<>> \/ Len(Strip(research_data)) < MinResearchLen

\* mutant: a text of exactly 20 characters is refused too
InsufficientContent_OffByOne(content_text) ==
    content_text = <<>> \/ Len(Strip(content_text)) <= MinContentLen

\* mutant: only an empty generated text is refused
InsufficientContent_EmptyOnly(content_text) == content_text = <<>>

\* not content_text or len(str(content_text).strip()) < 20
InsufficientContent(content_text) ==
    content_text = <<>> \/ Len(Strip(content_text)) < MinContentLen

\* the record built from the topic and the generated text
content_json(topic, content_text) ==
    [title             |-> topic \o S_Guide,
     meta_description  |-> S_CompleteGuideTo \o topic \o S_WithLatestTrends,
     long_form_content |-> content_text,
     twitter_thread    |-> S_ThreadAbout \o topic \o S_KeyInsights
                             \o Slice(content_text, TwitterSlice) \o S_Dots,
     linkedin_post     |-> S_InsightsOn \o topic \o S_ColonSpace
                             \o Slice(content_text, LinkedinSlice) \o S_YourThoughts,
     instagram_caption |-> S_Everything \o topic \o S_IgTags
                             \o Replace(Lower(topic), " ", <<>>),
     keywords          |-> <<topic, S_technology, S_trends, S_innovation, S_guide>>,
     tags              |-> <<Lower(topic), S_technology, S_guide, S_trends>>]

required_fields ==
    {"title", "meta_description", "long_form_content", "twitter_thread",
     "linkedin_post", "instagram_caption", "keywords", "tags"}

\* some required field is missing or empty ("" and [] are both <<>>)
MissingField(record) ==
    \E f \in required_fields : f \notin DOMAIN record \/ record[f] = <<>>

\* no content record yet
NoContent ==
    [title |-> <<>>, meta_description |-> <<>>, long_form_content |-> <<>>,
     twitter_thread |-> <<>>, linkedin_post |-> <<>>, instagram_caption |-> <<>>,
     keywords |-> <<>>, tags |-> <<>>]

(***************************************************************************)
(* plan_builders.py: the plans handed to portia.run_plan.  A plan is kept  *)
(* as what its prose embeds: the topic, the research text, the content     *)
(* record and, for the file plan, one step per file (path and content).    *)
(***************************************************************************)
create_research_plan(niche) ==
    [kind |-> "research", topic |-> niche, research_data |-> <<>>,
     content_data |-> NoContent, steps |-> <<>>]

create_content_research_plan(topic) ==
    [kind |-> "content_research", topic |-> topic, research_data |-> <<>>,
     content_data |-> NoContent, steps |-> <<>>]

\* mutant: the research text is not embedded in the plan
create_content_generation_plan_NoResearch(topic, research_data) ==
    [kind |-> "content_generation", topic |-> topic, research_data |-> <<>>,
     content_data |-> NoContent, steps |-> <<>>]

create_content_generation_plan(topic, research_data) ==
    [kind |-> "content_generation", topic |-> topic, research_data |-> research_data,
     content_data |-> NoContent, steps |-> <<>>]

create_notion_save_plan(content_data, topic) ==
    [kind |-> "notion_save", topic |-> topic, research_data |-> <<>>,
     content_data |-> content_data, steps |-> <<>>]

\* json.dumps(data, indent=2, ensure_ascii=False)
JsonDumps(data) == [json |-> data]

\* create_file_save_plan: one file_writer_tool step per file, the path and the
\* content in its prose; files_created lists the paths of the steps
FilePlanSteps(content_data, filename, output_dir) ==
    LET base == output_dir \o <<"/">> \o filename
        seo_data == [keywords         |-> content_data.keywords,
                     meta_description |-> content_data.meta_description,
                     tags             |-> content_data.tags]
    IN  <<[path |-> base \o S_json, content |-> JsonDumps(content_data)]>>
        \o (IF content_data.long_form_content # <<>>
            THEN <<[path    |-> base \o S_article_md,
                    content |-> S_Hash \o content_data.title \o <<NL, NL>>
                                  \o content_data.long_form_content]>>
            ELSE <<>>)
        \o (IF content_data.twitter_thread # <<>>
            THEN <<[path |-> base \o S_twitter_txt, content |-> content_data.twitter_thread]>>
            ELSE <<>>)
        \o (IF content_data.linkedin_post # <<>>
            THEN <<[path |-> base \o S_linkedin_txt, content |-> content_data.linkedin_post]>>
            ELSE <<>>)
        \o (IF content_data.instagram_caption # <<>>
            THEN <<[path    |-> base \o S_instagram_txt,
                    content |-> content_data.instagram_caption]>>
            ELSE <<>>)
        \o <<[path |-> base \o S_seo_json, content |-> JsonDumps(seo_data)]>>

create_file_save_plan(content_data, filename, output_dir) ==
    [kind |-> "file_save", topic |-> filename, research_data |-> <<>>,
     content_data |-> content_data,
     steps |-> FilePlanSteps(content_data, filename, output_dir)]

(***************************************************************************)
(* storage_services.py                                                     *)
(***************************************************************************)
\* len(safe_topic) > 50
MaxSafeTopicLen == 50
\* len(filename) > 100
MaxFilenameLen == 100

\* the stem without the .rstrip() of line 92
Filename_NoRStrip(topic, timestamp) ==
    LET lower == Lower(Replace(Filter(topic, AlnumChars \cup {" ", "-", "_"}), " ", <<"_">>))
        safe_topic == IF Len(lower) > MaxSafeTopicLen
                      THEN RStripChars(Slice(lower, MaxSafeTopicLen), {"_"})
                      ELSE lower
        filename == safe_topic \o <<"_">> \o timestamp
    IN  IF Len(filename) > MaxFilenameLen THEN S_content_ \o timestamp ELSE filename

\* the file name stem derived from the topic (save_content_locally, lines 91-104)
Filename(topic, timestamp) ==
    LET kept  == RStripChars(Filter(topic, AlnumChars \cup {" ", "-", "_"}), Whitespace)
        lower == Lower(Replace(kept, " ", <<"_">>))
        safe_topic == IF Len(lower) > MaxSafeTopicLen
                      THEN RStripChars(Slice(lower, MaxSafeTopicLen), {"_"})
                      ELSE lower
        filename == safe_topic \o <<"_">> \o timestamp
    IN  IF Len(filename) > MaxFilenameLen THEN S_content_ \o timestamp ELSE filename

\* mutant: the manual tier always takes the short stem
ManualFilename_AlwaysShort(filename, timestamp) == S_content_ \o timestamp

\* _save_files_manually: the stem, shortened again when it is too long
ManualFilename(filename, timestamp) ==
    IF Len(filename) > MaxFilenameLen THEN S_content_ \o timestamp ELSE filename

\* mutant: the manual tier writes the main JSON file only
ManualFiles_JsonOnly(content_data, filename, output_dir, timestamp) == SubSeq(FilePlanSteps(content_data, filename, output_dir), 1, 1)

\* _save_files_manually: the files it writes, in order
ManualFiles(content_data, filename, output_dir, timestamp) ==
    LET stem == output_dir \o <<"/">> \o ManualFilename(filename, timestamp)
        json_file == [path |-> stem \o S_json, content |-> JsonDumps(content_data)]
        article   == [path    |-> stem \o S_article_md,
                      content |-> (S_Hash \o content_data.title \o <<NL, NL>>)
                                    \o content_data.long_form_content]
        twitter   == [path |-> stem \o S_twitter_txt, content |-> content_data.twitter_thread]
        linkedin  == [path |-> stem \o S_linkedin_txt, content |-> content_data.linkedin_post]
        instagram == [path    |-> stem \o S_instagram_txt,
                      content |-> content_data.instagram_caption]
        seo_file  == [path    |-> stem \o S_seo_json,
                      content |-> JsonDumps([keywords         |-> content_data.keywords,
                                             meta_description |-> content_data.meta_description,
                                             tags             |-> content_data.tags])]
    IN  <<json_file>>
        \o (IF content_data.long_form_content # <<>> THEN <<article>> ELSE <<>>)
        \o (IF content_data.twitter_thread # <<>> THEN <<twitter>> ELSE <<>>)
        \o (IF content_data.linkedin_post # <<>> THEN <<linkedin>> ELSE <<>>)
        \o (IF content_data.instagram_caption # <<>> THEN <<instagram>> ELSE <<>>)
        \o <<seo_file>>

\* mutant: an exception of a manual write leaves _save_files_manually
_save_files_manually_Propagates(content_data, filename, output_dir, timestamp, fail_at) ==
    LET artifacts == ManualFiles(content_data, filename, output_dir, timestamp)
    IN  IF fail_at = 0
        THEN [written |-> artifacts, raised |-> FALSE,
              result  |-> output_dir \o <<"/">> \o ManualFilename(filename, timestamp)]
        ELSE [written |-> SubSeq(artifacts, 1, fail_at - 1), raised |-> TRUE,
              result  |-> E_Timeout]

\* _save_files_manually (lines 141-205): write number fail_at raises (0: none
\* does) and the files before it are written; the exception is caught at line
\* 203 and its message returned
_save_files_manually(content_data, filename, output_dir, timestamp, fail_at) ==
    LET artifacts == ManualFiles(content_data, filename, output_dir, timestamp)
    IN  IF fail_at = 0
        THEN [written |-> artifacts, raised |-> FALSE,
              result  |-> output_dir \o <<"/">> \o ManualFilename(filename, timestamp)]
        ELSE [written |-> SubSeq(artifacts, 1, fail_at - 1), raised |-> FALSE,
              result  |-> S_FailedToSaveFiles \o E_Timeout]

\* mutant: the check of the API key is missing
NotionSubmits_IgnoresKey(portia, content_data, notion_api_key, notion_available) ==
    /\ content_data # NoContent
    /\ notion_available
    /\ portia # "none"

\* save_content_to_notion hands a plan to portia.run_plan
NotionSubmits(portia, content_data, notion_api_key, notion_available) ==
    /\ content_data # NoContent
    /\ notion_available
    /\ notion_api_key
    /\ portia # "none"

\* mutant: an exception of the plan run is not caught
save_content_to_notion_Propagates(portia, content_data, notion_api_key, notion_available, outcome) ==
    IF outcome.raises
    THEN [raises |-> TRUE, value |-> outcome.msg]
    ELSE [raises |-> FALSE,
          value  |-> S_NotionPageCreated
                       \o ExtractResult(outcome.result, S_PageCreationAttempted)]

\* mutant: an exception of the plan run is reported as a created page
save_content_to_notion_Unrecorded(portia, content_data, notion_api_key, notion_available, outcome) ==
    [raises |-> FALSE,
     value  |-> IF outcome.raises
                THEN S_NotionPageCreated \o S_PageCreationAttempted
                ELSE S_NotionPageCreated
                       \o ExtractResult(outcome.result, S_PageCreationAttempted)]

\* save_content_to_notion, given what portia.run_plan did (when it was called):
\* the string returned, or the exception raised
save_content_to_notion(portia, content_data, notion_api_key, notion_available, outcome) ==
    IF content_data = NoContent
    THEN [raises |-> FALSE, value |-> S_NotionSkippedInvalid]
    ELSE IF ~notion_available
    THEN [raises |-> FALSE, value |-> S_NotionSkippedNotAvailable]
    ELSE IF ~notion_api_key
    THEN [raises |-> FALSE, value |-> S_NotionSkippedMissingKey]
    ELSE IF portia = "none"
    THEN [raises |-> TRUE, value |-> S_PortiaNotAvailableNotion]
    ELSE IF outcome.raises
    THEN [raises |-> FALSE, value |-> S_NotionStorageFailed \o outcome.msg]
    ELSE [raises |-> FALSE,
          value  |-> S_NotionPageCreated
                       \o ExtractResult(outcome.result, S_PageCreationAttempted)]

\* Step 3 as a function of the agent's fields and of what portia.run_plan does:
\* the outcome descriptor, and whether a plan was handed to portia.run_plan
NotionStep(portia, content_data, notion_api_key, notion_available, outcome) ==
    IF notion_available
    THEN LET saved == save_content_to_notion(portia, content_data, notion_api_key,
                                             notion_available, outcome)
         IN  [url     |-> IF saved.raises THEN S_Failed \o saved.value ELSE saved.value,
              submits |-> NotionSubmits(portia, content_data, notion_api_key,
                                        notion_available),
              raised  |-> outcome.raises]
    ELSE [url |-> S_SkippedNotionNotAvailable, submits |-> FALSE, raised |-> FALSE]

\* a text the Notion save plan may return
N_PageUrl ==
    <<"h","t","t","p","s",":","/","/","n","o","t","i","o","n",".","s","o","/","p","1">>

\* datetime.now().isoformat()
created_at ==
    <<"2","0","2","5","-","0","1","-","0","1","T","1","2",":","0","0",":","0","0">>

\* mutant: the entry holds a record whose article was emptied
ResultEntry_NoArticle(topic, content_data, notion_url, local_files) ==
    [topic        |-> topic,
     content_data |-> [content_data EXCEPT !.long_form_content = <<>>],
     notion_url   |-> notion_url,
     local_files  |-> local_files,
     status       |-> "ready_for_distribution",
     created_at   |-> created_at]

\* the result entry of a topic (content_agent.py:303-310)
ResultEntry(topic, content_data, notion_url, local_files) ==
    [topic        |-> topic,
     content_data |-> content_data,
     notion_url   |-> notion_url,
     local_files  |-> local_files,
     status       |-> "ready_for_distribution",
     created_at   |-> created_at]

\* the end-of-run report on an entry (content_agent.py:326-344).  A 'Notion page
\* created:' descriptor is parsed as JSON: a page URL or nothing is printed
\* for a JSON response, 'Notion URL parsing failed' for any other.  Any other
\* non-empty descriptor that starts with neither 'Failed:' nor 'Skipped' is
\* printed as the Notion URL.
ReportLine(result) ==
    LET url == result.notion_url
        response_text == SubSeq(url, Len(S_NotionPageCreated) + 1, Len(url))
    IN  IF url # <<>> /\ StartsWith(url, Slice(S_NotionPageCreated, Len(S_NotionPageCreated) - 1))
        THEN [topic |-> result.topic,
              line  |-> IF response_text # <<>> /\ response_text[1] \in {"{", "[", "\""}
                        THEN "page_url" ELSE "parsing_failed",
              url   |-> <<>>]
        ELSE IF /\ url # <<>>
                /\ ~StartsWith(url, <<"F","a","i","l","e","d",":">>)
                /\ ~StartsWith(url, <<"S","k","i","p","p","e","d">>)
        THEN [topic |-> result.topic, line |-> "notion_url", url |-> url]
        ELSE [topic |-> result.topic, line |-> "none", url |-> <<>>]

\* the texts the Notion save plan may return
NotionTexts == {<<>>, N_PageUrl}

(***************************************************************************)
(* State.                                                                  *)
(***************************************************************************)
VARIABLES
    app_config,        \* config.py: which settings the environment defines
    registry,          \* self.registry: "none", "default" or "default+notion"
    notion_available,  \* self.notion_available
    portia,            \* self.portia: "none", or the registry it was built with
    handshakes,        \* the McpToolRegistry.from_stdio_connection calls made so far:
                       \* the method of each and whether it connected
    pc,                \* where the agent is
    specific_topic,    \* the argument of run_content_creation_workflow
    topics_text,       \* research_trending_topics: the text extracted from the discovery
                       \* run, None before it and when the run raised
    trending_topics,   \* the list research_trending_topics returned
    topics,            \* the topics to process
    research_data,     \* generate_content: the text extracted from the research run
    content_text,      \* generate_content: the text extracted from the generation run
    content_error,     \* the exception caught at the per-topic boundary, "" if none
    content_data,      \* the content record, NoContent before synthesis
    notion_url,        \* the remote outcome descriptor
    local_files,       \* the local outcome descriptor
    filename,          \* save_content_locally: the stem
    results,           \* the result entries of this run
    returned,          \* what the run returned to its caller
    report,            \* the Notion URL part of the end-of-run report: one line per
                       \* entry
    error,             \* the message of the exception the run raised, "" if none
    submitted,         \* every plan handed to portia.run_plan, in order
    env_log,           \* what the environment did at each call: the plan kind of a
                       \* run_plan call or "manual_write", and whether it raised
    files,             \* every file written, in order (path and content)
    unit_in,           \* a direct call of one function: the function and its arguments
    unit_out           \* what that call returned

agent_vars == <<app_config, registry, notion_available, portia, handshakes>>

run_vars ==
    <<specific_topic, topics_text, trending_topics, topics, research_data, content_text,
      content_error, content_data, notion_url, local_files, filename, results,
      returned, report, error>>

env_vars == <<submitted, env_log, files>>

unit_vars == <<unit_in, unit_out>>

vars == <<agent_vars, pc, run_vars, env_vars, unit_vars>>

\* self.niche, "technology" by default
niche == S_technology

\* self.output_dir
output_dir == S_generated_content

NotReturned == [some |-> FALSE, results |-> <<>>, total_created |-> 0]

ERR_PORTIA == "CRITICAL ERROR: Portia is not initialized."

ERR_NO_TOPICS == "No trending topics found from research - research may have failed"

ERR_INVALID_TOPIC == "Could not extract valid topic from research results"

ERR_NO_CONTENT == "No content was successfully generated"

ERR_RESEARCH == "Research returned insufficient data"

ERR_CONTENT == "Content generation returned insufficient data"

ERR_FIELD == "Missing or empty required field"

ERR_RUN_PLAN == "portia.run_plan raised"

AgentInit ==
    /\ app_config \in [notion_api_key : BOOLEAN, portia_api_key : BOOLEAN,
                       google_api_key : BOOLEAN]
    /\ registry = "none"
    /\ notion_available = FALSE
    /\ portia = "none"
    /\ handshakes = <<>>
    /\ pc = "init"
    /\ specific_topic = NoneVal
    /\ topics_text = NoneVal
    /\ trending_topics = <<>>
    /\ topics = <<>>
    /\ research_data = NoneVal
    /\ content_text = NoneVal
    /\ content_error = ""
    /\ content_data = NoContent
    /\ notion_url = NoneVal
    /\ local_files = NoneVal
    /\ filename = <<>>
    /\ results = <<>>
    /\ returned = NotReturned
    /\ report = <<>>
    /\ error = ""
    /\ submitted = <<>>
    /\ env_log = <<>>
    /\ files = <<>>

\* no function is called directly
NoCall == [op |-> "none"]

Init ==
    /\ AgentInit
    /\ unit_in = NoCall
    /\ unit_out = NoCall

(***************************************************************************)
(* content_agent.py: ContentCreatorAgent.__init__                          *)
(***************************************************************************)
\* the Notion MCP handshake: OPENAPI_MCP_HEADERS first, NOTION_TOKEN after it failed
NotionConnected(config, registry_ok, headers_ok, token_ok) ==
    /\ config.notion_api_key
    /\ registry_ok
    /\ (headers_ok \/ token_ok)

\* mutant: the NOTION_TOKEN method is tried whatever the first method did
NotionHandshakes_Both(config, registry_ok, headers_ok, token_ok) ==
    IF ~config.notion_api_key \/ ~registry_ok THEN <<>>
    ELSE <<[method |-> "OPENAPI_MCP_HEADERS", ok |-> headers_ok],
           [method |-> "NOTION_TOKEN", ok |-> token_ok]>>

\* the connections the Notion set-up attempts, in order (lines 45-98)
NotionHandshakes(config, registry_ok, headers_ok, token_ok) ==
    IF ~config.notion_api_key \/ ~registry_ok THEN <<>>
    ELSE IF headers_ok THEN <<[method |-> "OPENAPI_MCP_HEADERS", ok |-> TRUE]>>
    ELSE <<[method |-> "OPENAPI_MCP_HEADERS", ok |-> FALSE],
           [method |-> "NOTION_TOKEN", ok |-> token_ok]>>

\* self.registry after the Notion set-up
RegistryAfterNotion(config, registry_ok, headers_ok, token_ok) ==
    IF ~registry_ok THEN "none"
    ELSE IF NotionConnected(config, registry_ok, headers_ok, token_ok)
    THEN "default+notion"
    ELSE "default"

\* self.portia: built with self.registry, else with a minimal default registry,
\* else None.  portia_init is what Portia(...) did with self.registry: "ok",
\* "raises", or "raises_key" (an exception whose message names an API key)
PortiaAfterInit(config, reg, portia_init, minimal_ok) ==
    IF reg = "none" THEN "none"
    ELSE IF ~config.portia_api_key \/ ~config.google_api_key THEN "none"
    ELSE IF portia_init = "ok" THEN reg
    ELSE IF portia_init = "raises_key" THEN "none"
    ELSE IF minimal_ok THEN "default"
    ELSE "none"

Construct ==
    /\ pc = "init"
    /\ \E registry_ok \in BOOLEAN, headers_ok \in BOOLEAN, token_ok \in BOOLEAN,
          portia_init \in {"ok", "raises", "raises_key"}, minimal_ok \in BOOLEAN :
          /\ registry' = RegistryAfterNotion(app_config, registry_ok, headers_ok, token_ok)
          /\ notion_available' =
                NotionConnected(app_config, registry_ok, headers_ok, token_ok)
          /\ handshakes' = NotionHandshakes(app_config, registry_ok, headers_ok, token_ok)
          /\ portia' = PortiaAfterInit(app_config, registry', portia_init, minimal_ok)
    /\ pc' = "ready"
    /\ UNCHANGED <<unit_vars, app_config, run_vars, env_vars>>

(***************************************************************************)
(* content_agent.py: run_content_creation_workflow                         *)
(***************************************************************************)
\* an entry of env_log
Called(call, raised) == [call |-> call, raised |-> raised]

\* mutant: the precondition is not checked
PortiaUnavailable_Never(p) == FALSE

\* self.portia is None
PortiaUnavailable(p) == p = "none"

\* mutant: the explicit topic is ignored
UseSpecificTopic_Never(st) == FALSE

\* if specific_topic:
UseSpecificTopic(st) == st.some /\ st.s # <<>>

\* mutant: the empty check after the loop is missing
NoResults_Never(res) == FALSE

\* if not results:
NoResults(res) == res = <<>>

\* mutant: a failed Notion save is tried again
StepAfterNotion_Retry(url) ==
    IF StartsWith(url, S_NotionStorageFailed) THEN "notion" ELSE "local"

\* mutant: the local step is left out
StepAfterNotion_SkipLocal(url) == "append"

\* mutant: the local step is skipped when the Notion save failed
StepAfterNotion_IfSaved(url) ==
    IF StartsWith(url, S_NotionStorageFailed) THEN "append" ELSE "local"

\* Step 4 follows Step 3 whatever notion_url is
StepAfterNotion(url) == "local"

\* the run starts: the precondition, then the explicit topic or discovery
StartWorkflow ==
    /\ pc = "ready"
    /\ \E st \in SpecificTopics :
          /\ specific_topic' = st
          /\ IF PortiaUnavailable(portia)
             THEN /\ pc' = "raised"
                  /\ error' = ERR_PORTIA
                  /\ topics' = topics
             ELSE IF UseSpecificTopic(st)
             THEN /\ pc' = "content_research"
                  /\ topics' = <<st.s>>
                  /\ error' = error
             ELSE /\ pc' = "discovery"
                  /\ UNCHANGED <<topics, error>>
    /\ UNCHANGED <<unit_vars, agent_vars, topics_text, trending_topics, research_data,
                   content_text, content_error, content_data, notion_url, local_files,
                   filename, results, returned, report, env_vars>>

\* research_trending_topics(self.portia, self.niche)
ResearchTrendingTopics ==
    /\ pc = "discovery"
    /\ \E outcome \in Outcomes(DiscoveryTexts) :
          /\ topics_text' = IF outcome.raises THEN NoneVal
                            ELSE Some(ExtractResult(outcome.result, <<>>))
          /\ trending_topics' = research_trending_topics(outcome)
          /\ env_log' = Append(env_log, Called("research", outcome.raises))
    /\ submitted' = Append(submitted, create_research_plan(niche))
    /\ pc' = "select"
    /\ UNCHANGED <<unit_vars, agent_vars, specific_topic, topics, research_data,
                   content_text, content_error, content_data, notion_url, local_files,
                   filename, results, returned, report, error, files>>

\* the choice of one topic among the trending topics (lines 226-268)
SelectTopic ==
    /\ pc = "select"
    /\ IF trending_topics = <<>>
       THEN /\ pc' = "raised"
            /\ error' = ERR_NO_TOPICS
            /\ topics' = topics
       ELSE \E topic \in TopicChoices(trending_topics) :
               IF InvalidTopic(topic)
               THEN /\ pc' = "raised"
                    /\ error' = ERR_INVALID_TOPIC
                    /\ topics' = topics
               ELSE /\ pc' = "content_research"
                    /\ topics' = <<CleanMarkdown(topic)>>
                    /\ error' = error
    /\ UNCHANGED <<unit_vars, agent_vars, specific_topic, topics_text, trending_topics,
                   research_data, content_text, content_error, content_data,
                   notion_url, local_files, filename, results, returned, report, env_vars>>

\* generate_content, first plan run: research (content_services.py:72-99).  An
\* exception leaves generate_content and is caught at the per-topic boundary
\* (content_agent.py:315-318): the loop ends and the run goes on after it.
ContentResearch ==
    /\ pc = "content_research"
    /\ submitted' = Append(submitted, create_content_research_plan(topics[1]))
    /\ \E outcome \in Outcomes(PlanTexts(MinResearchLen)) :
          /\ env_log' = Append(env_log, Called("content_research", outcome.raises))
          /\ IF outcome.raises
             THEN /\ research_data' = research_data
                  /\ content_error' = ERR_RUN_PLAN
                  /\ pc' = "after_loop"
             ELSE /\ research_data' =
                        Some(ExtractResult(outcome.result, S_NoResearchData))
                  /\ IF InsufficientResearch(research_data'.s)
                     THEN /\ content_error' = ERR_RESEARCH
                          /\ pc' = "after_loop"
                     ELSE /\ content_error' = content_error
                          /\ pc' = "content_generation"
    /\ UNCHANGED <<unit_vars, agent_vars, specific_topic, topics_text, trending_topics,
                   topics, content_text, content_data, notion_url, local_files,
                   filename, results, returned, report, error, files>>

\* generate_content, second plan run: generation (content_services.py:101-149)
ContentGeneration ==
    /\ pc = "content_generation"
    /\ submitted' =
          Append(submitted, create_content_generation_plan(topics[1], research_data.s))
    /\ \E outcome \in Outcomes(PlanTexts(MinContentLen)) :
          /\ env_log' = Append(env_log, Called("content_generation", outcome.raises))
          /\ IF outcome.raises
             THEN /\ content_error' = ERR_RUN_PLAN
                  /\ pc' = "after_loop"
                  /\ UNCHANGED <<content_text, content_data>>
             ELSE /\ content_text' = Some(ExtractResult(outcome.result, <<>>))
                  /\ IF InsufficientContent(content_text'.s)
                     THEN /\ content_error' = ERR_CONTENT
                          /\ pc' = "after_loop"
                          /\ content_data' = content_data
                     ELSE IF MissingField(content_json(topics[1], content_text'.s))
                     THEN /\ content_error' = ERR_FIELD
                          /\ pc' = "after_loop"
                          /\ content_data' = content_data
                     ELSE /\ content_data' = content_json(topics[1], content_text'.s)
                          /\ content_error' = content_error
                          /\ pc' = "notion"
    /\ UNCHANGED <<unit_vars, agent_vars, specific_topic, topics_text, trending_topics,
                   topics, research_data, notion_url, local_files, filename, results,
                   returned, report, error, files>>

\* Step 3: save to Notion, if available (content_agent.py:284-293)
SaveToNotion ==
    /\ pc = "notion"
    /\ \E outcome \in Outcomes(NotionTexts) :
          LET step == NotionStep(portia, content_data, app_config.notion_api_key,
                                 notion_available, outcome)
          IN  /\ notion_url' = Some(step.url)
              /\ submitted' =
                    IF step.submits
                    THEN Append(submitted, create_notion_save_plan(content_data, topics[1]))
                    ELSE submitted
              /\ env_log' =
                    IF step.submits
                    THEN Append(env_log, Called("notion_save", step.raised))
                    ELSE env_log
    /\ pc' = StepAfterNotion(notion_url'.s)
    /\ UNCHANGED <<unit_vars, agent_vars, specific_topic, topics_text, trending_topics,
                   topics, research_data, content_text, content_error, content_data,
                   local_files, filename, results, returned, report, error, files>>

\* Step 4: save_content_locally, the Portia File Writer tier
\* (storage_services.py:87-138).  The plan run raises, having written nothing or
\* the first file of the plan, or returns having written the files of the plan,
\* or returns having written nothing.
SaveContentLocally ==
    /\ pc = "local"
    /\ filename' = Filename(topics[1], Timestamp)
    /\ IF portia # "none"
       THEN /\ submitted' = Append(submitted,
                               create_file_save_plan(content_data, filename', output_dir))
            /\ \E tier \in {"raises", "raises_partial", "written", "not_written"} :
                  /\ env_log' = Append(env_log,
                                       Called("file_save", tier \in {"raises", "raises_partial"}))
                  /\ IF tier \in {"raises", "raises_partial"}
                     THEN /\ pc' = "manual"
                          /\ local_files' = local_files
                          /\ files' = IF tier = "raises_partial"
                                      THEN files \o SubSeq(submitted'[Len(submitted')].steps, 1, 1)
                                      ELSE files
                     ELSE /\ pc' = "append"
                          /\ local_files' = Some(output_dir \o <<"/">> \o filename')
                          /\ files' = IF tier = "written"
                                      THEN files \o submitted'[Len(submitted')].steps
                                      ELSE files
       ELSE /\ pc' = "manual"
            /\ UNCHANGED <<submitted, env_log, local_files, files>>
    /\ UNCHANGED <<unit_vars, agent_vars, specific_topic, topics_text, trending_topics,
                   topics, research_data, content_text, content_error, content_data,
                   notion_url, results, returned, report, error>>

\* the fallback tier: _save_files_manually, and the except branch of Step 4
\* (content_agent.py:296-301) for an exception that leaves save_content_locally.
\* No write raises, or the first one does, or the last one does.
SaveFilesManually ==
    /\ pc = "manual"
    /\ \E fail_at \in {0, 1, Len(ManualFiles(content_data, filename, output_dir, Timestamp))} :
          LET saved == _save_files_manually(content_data, filename, output_dir,
                                            Timestamp, fail_at)
          IN  /\ env_log' = Append(env_log, Called("manual_write", fail_at # 0))
              /\ files' = files \o saved.written
              /\ local_files' = IF saved.raised THEN Some(S_Failed \o saved.result)
                                ELSE Some(saved.result)
    /\ pc' = "append"
    /\ UNCHANGED <<unit_vars, agent_vars, specific_topic, topics_text, trending_topics,
                   topics, research_data, content_text, content_error, content_data,
                   notion_url, filename, results, returned, report, error, submitted>>

\* the result entry is assembled and appended (content_agent.py:303-313)
AppendResult ==
    /\ pc = "append"
    /\ results' = Append(results,
                         ResultEntry(topics[1], content_data, notion_url.s, local_files.s))
    /\ pc' = "after_loop"
    /\ UNCHANGED <<unit_vars, agent_vars, specific_topic, topics_text, trending_topics,
                   topics, research_data, content_text, content_error, content_data,
                   notion_url, local_files, filename, returned, report, error, env_vars>>

\* after the loop: the empty check, the report and the return (lines 320-346)
ReportAndReturn ==
    /\ pc = "after_loop"
    /\ IF NoResults(results)
       THEN /\ pc' = "raised"
            /\ error' = ERR_NO_CONTENT
            /\ returned' = returned
            /\ report' = report
       ELSE /\ pc' = "returned"
            /\ report' = [i \in DOMAIN results |-> ReportLine(results[i])]
            /\ returned' = [some |-> TRUE, results |-> results,
                            total_created |-> Len(results)]
            /\ error' = error
    /\ UNCHANGED <<unit_vars, agent_vars, specific_topic, topics_text, trending_topics,
                   topics, research_data, content_text, content_error, content_data,
                   notion_url, local_files, filename, results, env_vars>>

Next ==
    \/ Construct
    \/ StartWorkflow
    \/ ResearchTrendingTopics
    \/ SelectTopic
    \/ ContentResearch
    \/ ContentGeneration
    \/ SaveToNotion
    \/ SaveContentLocally
    \/ SaveFilesManually
    \/ AppendResult
    \/ ReportAndReturn

Spec == Init /\ [][Next]_vars

(***************************************************************************)
(* Direct calls: one function of the services applied to given arguments,  *)
(* outside a run of the workflow.                                          *)
(***************************************************************************)
\* the text each extraction site ("discovery", "research", "generation",
\* "notion") uses for a falsy result
Placeholder(site) ==
    IF site = "research" THEN S_NoResearchData
    ELSE IF site = "notion" THEN S_PageCreationAttempted
    ELSE <<>>

\* the texts a plan run may return at a site
SiteTexts(site) ==
    IF site = "discovery" THEN DiscoveryTexts
    ELSE IF site = "research" THEN PlanTexts(MinResearchLen)
    ELSE IF site = "generation" THEN PlanTexts(MinContentLen)
    ELSE NotionTexts

\* the extraction block of a site applied to a result
ApplyExtract ==
    /\ unit_in.op = "extract"
    /\ unit_out.op = "none"
    /\ unit_out' = [op   |-> "extract",
                    text |-> ExtractResult(unit_in.result, Placeholder(unit_in.site))]
    /\ UNCHANGED <<unit_in, agent_vars, pc, run_vars, env_vars>>

\* _extract_topics_from_text applied to a text: the topics its loop accepts and
\* the list it returns
ApplyParse ==
    /\ unit_in.op = "parse"
    /\ unit_out.op = "none"
    /\ unit_out' = [op         |-> "parse",
                    candidates |-> TopicsOfLines(SplitLines(unit_in.text)),
                    topics     |-> _extract_topics_from_text(unit_in.text)]
    /\ UNCHANGED <<unit_in, agent_vars, pc, run_vars, env_vars>>

\* a content record to save
SampleRecord == content_json(T_X, Rep("a", MinContentLen))

\* save_content_to_notion called directly, and Step 3 of the agent, on the same arguments
ApplyNotion ==
    /\ unit_in.op = "notion"
    /\ unit_out.op = "none"
    /\ unit_out' =
          [op      |-> "notion",
           direct  |-> save_content_to_notion(unit_in.portia, unit_in.content_data,
                          unit_in.notion_api_key, unit_in.notion_available,
                          unit_in.outcome),
           submits |-> NotionSubmits(unit_in.portia, unit_in.content_data,
                          unit_in.notion_api_key, unit_in.notion_available),
           step    |-> NotionStep(unit_in.portia, unit_in.content_data,
                          unit_in.notion_api_key, unit_in.notion_available,
                          unit_in.outcome)]
    /\ UNCHANGED <<unit_in, agent_vars, pc, run_vars, env_vars>>

\* save_content_locally, lines 91-104, applied to a topic
ApplyStem ==
    /\ unit_in.op = "stem"
    /\ unit_out.op = "none"
    /\ unit_out' = [op |-> "stem", filename |-> Filename(unit_in.topic, Timestamp)]
    /\ UNCHANGED <<unit_in, agent_vars, pc, run_vars, env_vars>>

\* create_file_save_plan and _save_files_manually on the same record and stem:
\* files_created, the paths of the plan's steps in order, and the files the
\* manual tier writes
ApplyFiles ==
    /\ unit_in.op = "files"
    /\ unit_out.op = "none"
    /\ unit_out' =
          LET plan == create_file_save_plan(unit_in.content_data, unit_in.filename,
                                            output_dir)
          IN  [op            |-> "files",
               steps         |-> plan.steps,
               files_created |-> [k \in DOMAIN plan.steps |-> plan.steps[k].path],
               manual        |-> ManualFiles(unit_in.content_data, unit_in.filename,
                                             output_dir, Timestamp)]
    /\ UNCHANGED <<unit_in, agent_vars, pc, run_vars, env_vars>>

\* one call is about to be made, with arguments drawn from the inputs
UnitInit ==
    /\ AgentInit
    /\ app_config = [notion_api_key |-> TRUE, portia_api_key |-> TRUE,
                     google_api_key |-> TRUE]
    /\ unit_out = NoCall
    /\ \/ \E site \in {"discovery", "research", "generation", "notion"} :
             \E result \in ResultsOver(SiteTexts(site)) :
                unit_in = [op |-> "extract", site |-> site, result |-> result]
       \/ \E text \in ParseTexts : unit_in = [op |-> "parse", text |-> text]
       \/ \E topic \in StemTopics : unit_in = [op |-> "stem", topic |-> topic]
       \/ \E topic \in {T_X, T_AIRobots}, article \in {<<>>, SampleRecord.long_form_content},
             twitter \in {<<>>, SampleRecord.twitter_thread},
             linkedin \in {<<>>, SampleRecord.linkedin_post},
             instagram \in {<<>>, SampleRecord.instagram_caption} :
                unit_in = [op           |-> "files",
                           content_data |-> [SampleRecord EXCEPT
                                                !.long_form_content = article,
                                                !.twitter_thread = twitter,
                                                !.linkedin_post = linkedin,
                                                !.instagram_caption = instagram],
                           filename     |-> Filename(topic, Timestamp)]
       \/ \E p \in {"none", "default", "default+notion"},
             record \in {NoContent, SampleRecord},
             key \in BOOLEAN, available \in BOOLEAN,
             outcome \in Outcomes(NotionTexts) :
                unit_in = [op |-> "notion", portia |-> p, content_data |-> record,
                           notion_api_key |-> key, notion_available |-> available,
                           outcome |-> outcome]

UnitNext ==
    \/ ApplyExtract
    \/ ApplyParse
    \/ ApplyNotion
    \/ ApplyStem
    \/ ApplyFiles

Units == UnitInit /\ [][UnitNext]_vars

(***************************************************************************)
(* Properties.                                                             *)
(***************************************************************************)
\* the kinds of the plans handed to portia.run_plan, in order
Kinds == [i \in DOMAIN submitted |-> submitted[i].kind]

\* some plan of kind k was handed to portia.run_plan
Submitted(k) == \E i \in DOMAIN submitted : submitted[i].kind = k

\* the run has started
Started == pc \notin {"init", "ready"}

\* run_plan raised for a plan of kind k, or the manual write raised (k = "manual_write")
Raised(k) == \E i \in DOMAIN env_log : env_log[i].call = k /\ env_log[i].raised

\* C1: when the run is called while self.portia is None, it raises the
\* Portia-not-initialized error at once: no plan is ever handed to
\* portia.run_plan, whatever specific_topic is, and nothing is returned.
C1_AbortsWithoutPortia ==
    (Started /\ portia = "none") =>
        /\ pc = "raised"
        /\ error = ERR_PORTIA
        /\ submitted = <<>>
        /\ env_log = <<>>
        /\ results = <<>>
        /\ ~returned.some

C1_Witness ==
    /\ portia = "none"
    /\ pc = "raised"
    /\ specific_topic = Some(T_X)

\* C2: a run goes through its stages in order.  A step that sets the content
\* record starts from a resolved topic; the remote outcome is set after the
\* record, the local outcome after the remote one; the result entry is appended
\* only when the record and both outcome descriptors are there; the run
\* returns only with the entry recorded; and the Portia-not-initialized abort
\* is raised only by the first step of the run.
C2_StageOrder ==
    [][ /\ (content_data' # content_data) => (topics # <<>> /\ pc = "content_generation")
        /\ (notion_url' # notion_url) => (content_data # NoContent /\ ~local_files.some)
        /\ (local_files' # local_files) => (content_data # NoContent /\ notion_url.some)
        /\ (results' # results) =>
              /\ content_data # NoContent
              /\ notion_url.some
              /\ local_files.some
              /\ results' = <<[topic        |-> topics[1],
                               content_data |-> content_data,
                               notion_url   |-> notion_url.s,
                               local_files  |-> local_files.s,
                               status       |-> "ready_for_distribution",
                               created_at   |-> created_at]>>
        /\ (returned' # returned) => (results # <<>> /\ returned'.results = results)
        /\ (error' = ERR_PORTIA /\ error # ERR_PORTIA) => (pc = "ready" /\ submitted = <<>>)
      ]_vars

C2_Witness ==
    /\ pc = "returned"
    /\ returned.some
    /\ Len(returned.results) = 1
    /\ specific_topic = NoneVal

\* C3: with a non-empty specific_topic, the discovery plan is never handed to
\* portia.run_plan, no topic list is parsed, no topic is selected, and the
\* topic processed everywhere is the topic given.
C3_ExplicitTopicSkipsDiscovery ==
    (Started /\ specific_topic.some /\ specific_topic.s # <<>>) =>
        /\ ~Submitted("research")
        /\ trending_topics = <<>>
        /\ pc \notin {"discovery", "select"}
        /\ (portia # "none" => topics = <<specific_topic.s>>)
        /\ \A i \in DOMAIN submitted :
              submitted[i].kind \in {"content_research", "content_generation", "notion_save"}
                 => submitted[i].topic = specific_topic.s
        /\ \A i \in DOMAIN results : results[i].topic = specific_topic.s

C3_Witness ==
    /\ pc = "returned"
    /\ specific_topic = Some(T_AIRobots)
    /\ returned.results[1].topic = T_AIRobots
    /\ Kinds[1] = "content_research"

\* the explicit-topic path was taken
ExplicitTopic == Started /\ specific_topic.some /\ specific_topic.s # <<>>

\* the one result entry a returned run holds: the content record with the
\* generated text as its long form
ReturnsOneResult ==
    /\ returned.total_created = 1
    /\ Len(returned.results) = 1
    /\ returned.results[1].topic = specific_topic.s
    /\ returned.results[1].content_data.long_form_content = content_text.s

\* C4 as stated: with an explicit topic, a research text of at least 10
\* characters and a generated text of at least 20 characters, the run does
\* not fail and returns one result whose long_form_content is the generated
\* text.
C4_Original ==
    (/\ ExplicitTopic
     /\ research_data.some /\ Len(research_data.s) >= MinResearchLen
     /\ content_text.some /\ Len(content_text.s) >= MinContentLen) =>
        /\ content_error = ""
        /\ error = ""
        /\ pc # "raised"
        /\ (pc = "returned" => ReturnsOneResult)

\* C4 (amended): with an explicit topic, a research text of at least 10
\* characters and a generated text of at least 20 characters, both counted
\* after stripping surrounding whitespace, the run never fails: it is at one
\* of the persistence steps, at the return (with a result entry) or has
\* returned, and it returns {results, total_created} with
\* total_created = len(results) = 1 and results[0].content_data.long_form_content
\* the generated text, whatever the remote and the local sink do.
C4_ExplicitTopicReturnsContent ==
    (/\ ExplicitTopic
     /\ research_data.some /\ Len(Strip(research_data.s)) >= MinResearchLen
     /\ content_text.some /\ Len(Strip(content_text.s)) >= MinContentLen) =>
        /\ content_error = ""
        /\ error = ""
        /\ pc # "raised"
        /\ pc \in {"notion", "local", "manual", "append", "after_loop", "returned"}
        /\ (pc = "after_loop" => results # <<>>)
        /\ (pc = "returned" => ReturnsOneResult)

C4_Witness ==
    /\ pc = "returned"
    /\ specific_topic = Some(T_X)
    /\ ReturnsOneResult
    /\ Len(content_text.s) > MinContentLen
    /\ Raised("notion_save")
    /\ Raised("file_save")
    /\ Raised("manual_write")

\* synthesis failed: a plan run of generate_content raised, or the text it
\* returned is too short once stripped
SynthesisFailed ==
    \/ Raised("content_research")
    \/ Raised("content_generation")
    \/ (research_data.some /\ Len(Strip(research_data.s)) < MinResearchLen)
    \/ (content_text.some /\ Len(Strip(content_text.s)) < MinContentLen)

\* C5: when synthesis fails for the topic, the error is caught at the
\* per-topic boundary (the run goes on after the loop), no sink is invoked,
\* results stays empty, nothing is returned, and the only exception the run
\* raises is the no-content error.
C5_SynthesisFailureFailsRun ==
    SynthesisFailed =>
        /\ content_error # ""
        /\ pc \in {"after_loop", "raised"}
        /\ (pc = "raised" => error = ERR_NO_CONTENT)
        /\ results = <<>>
        /\ ~returned.some
        /\ content_data = NoContent
        /\ ~notion_url.some
        /\ ~local_files.some
        /\ ~Submitted("notion_save")
        /\ ~Submitted("file_save")
        /\ files = <<>>

C5_Witness ==
    /\ pc = "raised"
    /\ error = ERR_NO_CONTENT
    /\ content_error = ERR_CONTENT
    /\ results = <<>>

\* C6: once the content record exists, no sink failure fails the run: no
\* exception is raised, the entry is appended and counted, and a sink failure
\* is in the entry as its failure message (notion_url for the remote sink,
\* local_files when both local tiers failed).
C6_SinkFailuresAreRecorded ==
    content_data # NoContent =>
        /\ error = ""
        /\ pc # "raised"
        /\ (pc \in {"after_loop", "returned"} => Len(results) = 1)
        /\ (pc = "returned" => returned.total_created = 1 /\ returned.results = results)
        /\ \A i \in DOMAIN results :
              /\ Raised("notion_save") =>
                    results[i].notion_url = S_NotionStorageFailed \o E_Timeout
              /\ (Raised("file_save") /\ Raised("manual_write")) =>
                    results[i].local_files = S_FailedToSaveFiles \o E_Timeout

C6_Witness ==
    /\ pc = "returned"
    /\ returned.total_created = 1
    /\ Raised("notion_save")
    /\ Raised("file_save")
    /\ Raised("manual_write")
    /\ returned.results[1].notion_url = S_NotionStorageFailed \o E_Timeout
    /\ returned.results[1].local_files = S_FailedToSaveFiles \o E_Timeout

\* the local sink was invoked: the file plan was run or the files were written directly
LocalAttempted == \E i \in DOMAIN env_log : env_log[i].call \in {"file_save", "manual_write"}

\* C7: for a synthesized topic the remote step comes first and the local
\* step follows it whatever the remote outcome is: the local sink is invoked
\* only with the remote outcome set, a Notion plan precedes the file plan,
\* and once the remote outcome is set the run cannot get past the local step
\* without invoking the local sink.
C7_LocalAlwaysAttempted ==
    /\ LocalAttempted => notion_url.some
    /\ \A i, j \in DOMAIN submitted :
          (submitted[i].kind = "notion_save" /\ submitted[j].kind = "file_save") => i < j
    /\ notion_url.some => (pc = "local" \/ LocalAttempted)
    /\ results # <<>> => LocalAttempted

C7_Witness ==
    /\ Raised("notion_save")
    /\ LocalAttempted
    /\ results # <<>>

\* C8: within a topic the plan runs are ordered.  The generation plan is
\* handed over right after a research run that returned, and embeds the text
\* extracted from it; a persistence plan (Notion or files) is handed over only
\* after a generation run that returned, and carries the record built from it.
C8_PlanOrder ==
    \A i \in DOMAIN submitted :
        /\ submitted[i].kind = "content_generation" =>
              /\ i > 1
              /\ submitted[i - 1].kind = "content_research"
              /\ ~env_log[i - 1].raised
              /\ submitted[i - 1].topic = submitted[i].topic
              /\ research_data.some
              /\ submitted[i].research_data = research_data.s
        /\ submitted[i].kind \in {"notion_save", "file_save"} =>
              /\ \E j \in 1..(i - 1) :
                    /\ submitted[j].kind = "content_generation"
                    /\ env_log[j].call = "content_generation"
                    /\ ~env_log[j].raised
              /\ content_data # NoContent
              /\ submitted[i].content_data = content_data

C8_Witness ==
    /\ Len(submitted) = 4
    /\ Kinds = <<"content_research", "content_generation", "notion_save", "file_save">>
    /\ submitted[2].research_data = research_data.s
    /\ research_data.s # <<>>

\* C9: whenever the text extracted from the research run has fewer than 10
\* characters, generate_content fails with the insufficient-research error
\* and the generation plan is never handed to portia.run_plan.
C9_InsufficientResearch ==
    (research_data.some /\ Len(research_data.s) < MinResearchLen) =>
        /\ content_error = ERR_RESEARCH
        /\ ~Submitted("content_generation")
        /\ ~content_text.some
        /\ content_data = NoContent
        /\ pc \in {"after_loop", "raised"}

C9_Witness ==
    /\ research_data.some
    /\ Len(research_data.s) = MinResearchLen - 1
    /\ content_error = ERR_RESEARCH
    /\ pc = "raised"

\* all eight fields of the content record are non-empty
AllFieldsNonEmpty == \A f \in required_fields : content_data[f] # <<>>

\* C10 as stated: given a research text of at least 10 characters, a
\* generated text of at least 20 characters gives a record with eight
\* non-empty fields, a shorter or empty one the insufficient-content error,
\* and no record ever has an empty field.
C10_Original ==
    /\ (/\ research_data.some /\ Len(research_data.s) >= MinResearchLen
        /\ content_text.some) =>
          /\ Len(content_text.s) >= MinContentLen =>
                (content_data # NoContent /\ AllFieldsNonEmpty /\ content_error = "")
          /\ Len(content_text.s) < MinContentLen =>
                (content_data = NoContent /\ content_error = ERR_CONTENT)
    /\ content_data # NoContent => AllFieldsNonEmpty

\* C10 (amended): given a research text of at least 10 characters after
\* stripping surrounding whitespace, a generated text of at least 20
\* characters after stripping gives a record with eight non-empty fields, a
\* generated text that is empty or shorter than 20 characters after stripping
\* gives the insufficient-content error and no record, and no record ever has
\* an empty field.
C10_RecordComplete ==
    /\ (/\ research_data.some /\ Len(Strip(research_data.s)) >= MinResearchLen
        /\ content_text.some) =>
          /\ Len(Strip(content_text.s)) >= MinContentLen =>
                (content_data # NoContent /\ AllFieldsNonEmpty /\ content_error = "")
          /\ Len(Strip(content_text.s)) < MinContentLen =>
                (content_data = NoContent /\ content_error = ERR_CONTENT)
    /\ content_data # NoContent => AllFieldsNonEmpty

C10_Witness ==
    /\ content_data # NoContent
    /\ AllFieldsNonEmpty
    /\ Len(content_text.s) > Len(Strip(content_text.s))
    /\ Len(Strip(content_text.s)) = MinContentLen
    /\ content_data.long_form_content = content_text.s

\* C11 as stated: extraction returns (a) a non-empty final-output value when the
\* result has one, (b) otherwise the output of the last step when the step
\* list is non-empty, (c) otherwise str(result), for every shape of a truthy
\* result and at every site.
C11_Precedence ==
    (unit_out.op = "extract" /\ ~unit_in.result.is_none) =>
        LET r    == unit_in.result
            fo   == r.final_output
            last == r.steps[Len(r.steps)]
        IN  IF r.has_outputs /\ fo.present /\ fo.value.some /\ fo.value.s # <<>>
            THEN unit_out.text = fo.value.s
            ELSE IF r.has_outputs /\ r.steps # <<>>
            THEN (last.some /\ last.s # <<>>) => unit_out.text = last.s
            ELSE unit_out.text = r.repr

\* C12 as stated: a falsy result (no final output, no step outputs) is
\* extracted as the empty string at every site, never as a placeholder text.
C12_AbsenceIsEmpty ==
    (unit_out.op = "extract" /\ unit_in.result.is_none) => unit_out.text = <<>>

\* C13 as stated: when the text extracted from the discovery run is empty or
\* shorter than 10 characters, topic selection fails with the
\* no-trending-topics error and neither the research nor the generation plan
\* of a topic is handed to portia.run_plan.
C13_ShortDiscoveryFails ==
    (topics_text.some /\ Len(topics_text.s) < MinDiscoveryLen /\ pc # "select") =>
        /\ pc = "raised"
        /\ error = ERR_NO_TOPICS
        /\ topics = <<>>
        /\ ~Submitted("content_research")
        /\ ~Submitted("content_generation")

\* the markers the claim allows at the start of a candidate line: 1..10, then '.' or ')'
ClaimedMarkers == {Decimal(i) \o <<c>> : i \in 1..10, c \in {".", ")"}}

\* the candidate text the claim derives from a line that starts with a marker
ClaimedText(line) ==
    LET m    == CHOOSE m \in ClaimedMarkers : StartsWith(line, m)
        rest == SubSeq(line, Len(m) + 1, Len(line))
        cut  == IF IndexOf(rest, ":") # 0 THEN SubSeq(rest, 1, IndexOf(rest, ":") - 1)
                ELSE rest
    IN  StripChars(cut, Whitespace \cup {",", ".", ";", ":", "-"})

\* the candidates the claim derives from the lines of a text
RECURSIVE ClaimedCandidates(_)
ClaimedCandidates(lines) ==
    IF lines = <<>> THEN <<>>
    ELSE LET line == Strip(Head(lines))
         IN  (IF /\ \E m \in ClaimedMarkers : StartsWith(line, m)
                 /\ Len(ClaimedText(line)) > 3
                 /\ Len(ClaimedText(line)) <= 80
              THEN <<ClaimedText(line)>> ELSE <<>>) \o ClaimedCandidates(Tail(lines))

\* C14 as stated: the candidates parsed from a text are exactly the lines that
\* start with an integer 1..10 followed by '.' or ')', each reduced to the text
\* after the marker, cut at the first ':', stripped of surrounding punctuation
\* and whitespace, and kept when its length is in (3, 80]; for
\* "1. Topic A\n2. Topic B: extra\n3. x" they are "Topic A" and "Topic B".
C14_NumberedCandidates ==
    unit_out.op = "parse" =>
        /\ unit_out.candidates = ClaimedCandidates(SplitLines(unit_in.text))
        /\ unit_in.text = D_Numbered =>
              unit_out.candidates = << <<"T","o","p","i","c"," ","A">>,
                                       <<"T","o","p","i","c"," ","B">> >>

\* a topic without its '*' and '#' characters, surrounding whitespace removed
Unmarked(topic) ==
    LET Kept(ch) == ch \notin {"*", "#"}
    IN  Strip(SelectSeq(topic, Kept))

C16_Deduplicated ==
    unit_out.op = "parse" =>
        LET candidates == clean_topics(unit_out.topics)
        IN  \A i, j \in DOMAIN candidates : i # j => candidates[i] # candidates[j]

\* C17 as stated: a topic selected after discovery and handed to synthesis has
\* no '*' or '#' and at least 5 characters after that cleanup.
C17_CleanedTopicLongEnough ==
    (specific_topic = NoneVal /\ topics # <<>>) =>
        /\ \A i \in DOMAIN topics[1] : topics[1][i] \notin {"*", "#"}
        /\ Len(topics[1]) >= MinSelectedLen

\* the outcome descriptors that report a skipped remote save
SkippedOutcomes ==
    {S_NotionSkippedInvalid, S_NotionSkippedNotAvailable, S_NotionSkippedMissingKey,
     S_SkippedNotionNotAvailable}

\* C18: without the Notion integration (notion_available false) or without the
\* API key, the remote save is skipped and no Notion plan is handed to
\* portia.run_plan, both in Step 3 of the agent and in a direct call of
\* save_content_to_notion.
C18_SkippedWithoutNotion ==
    (unit_out.op = "notion"
       /\ (~unit_in.notion_available \/ ~unit_in.notion_api_key)) =>
        /\ ~unit_out.direct.raises
        /\ unit_out.direct.value \in SkippedOutcomes
        /\ ~unit_out.submits
        /\ unit_out.step.url \in SkippedOutcomes
        /\ ~unit_out.step.submits

C18_Witness ==
    /\ unit_out.op = "notion"
    /\ unit_in.notion_available
    /\ ~unit_in.notion_api_key
    /\ unit_in.portia = "default+notion"
    /\ unit_in.content_data = SampleRecord
    /\ ~unit_in.outcome.raises
    /\ unit_out.direct.value = S_NotionSkippedMissingKey
    /\ unit_out.step.url = S_NotionSkippedMissingKey

\* C19: when the Notion plan is handed to portia.run_plan and the run raises,
\* the remote outcome is the failure message carrying str(e), no exception
\* leaves the step and the run goes on to the local step; when the run
\* returns, the outcome is the success descriptor wrapping the extracted text.
C19_RemoteFailureIsCaught ==
    [][ (pc = "notion" /\ Len(submitted') > Len(submitted)) =>
            /\ submitted'[Len(submitted')].kind = "notion_save"
            /\ pc' = "local"
            /\ error' = ""
            /\ content_error' = ""
            /\ IF env_log'[Len(env_log')].raised
               THEN \E m \in ExcMsgs : notion_url' = Some(S_NotionStorageFailed \o m)
               ELSE \E t \in {<<>>, N_PageUrl, ReprText, S_PageCreationAttempted} :
                       notion_url' = Some(S_NotionPageCreated \o t)
      ]_vars

C19_Witness ==
    /\ pc = "local"
    /\ env_log # <<>>
    /\ env_log[Len(env_log)] = Called("notion_save", TRUE)
    /\ notion_url = Some(S_NotionStorageFailed \o E_Timeout)
    /\ ~local_files.some

LastWritten(path) ==
    LET last == Max({i \in DOMAIN files : files[i].path = path})
    IN  files[last].content

\* the manual tier ran, and whether it raised
ManualRan == \E i \in DOMAIN env_log : env_log[i].call = "manual_write"

ArtifactPaths(record, stem) ==
    LET base == output_dir \o <<"/">> \o stem
    IN  {base \o S_json, base \o S_seo_json}
        \cup (IF record.long_form_content # <<>> THEN {base \o S_article_md} ELSE {})
        \cup (IF record.twitter_thread # <<>> THEN {base \o S_twitter_txt} ELSE {})
        \cup (IF record.linkedin_post # <<>> THEN {base \o S_linkedin_txt} ELSE {})
        \cup (IF record.instagram_caption # <<>> THEN {base \o S_instagram_txt} ELSE {})

\* C22: for a record and a stem, files_created of the file plan has one path
\* per step, and its paths, the paths the manual tier writes and the artifact
\* set (the .json and _seo.json files always, the article, twitter, linkedin
\* and instagram files each exactly when its field is non-empty) are the same
\* set.
C22_SameFileSet ==
    unit_out.op = "files" =>
        LET created == unit_out.files_created
            manual  == unit_out.manual
        IN  /\ Len(created) = Len(unit_out.steps)
            /\ \A i, j \in DOMAIN created : created[i] = created[j] => i = j
            /\ {created[i] : i \in DOMAIN created}
                  = ArtifactPaths(unit_in.content_data, unit_in.filename)
            /\ {manual[i].path : i \in DOMAIN manual}
                  = ArtifactPaths(unit_in.content_data, unit_in.filename)
            /\ \A i, j \in DOMAIN manual : manual[i].path = manual[j].path => i = j

\* both tiers were given a record with an article and no twitter thread
C22_Witness ==
    /\ unit_out.op = "files"
    /\ unit_in.content_data.long_form_content # <<>>
    /\ unit_in.content_data.twitter_thread = <<>>
    /\ Len(unit_out.files_created) < 6
    /\ Len(unit_out.manual) = Len(unit_out.files_created)

\* C23: when the file plan run raised and a manual write raised as well, the
\* local sink returns "Failed to save files: " and the message of the
\* exception, nothing is raised, and the run goes on to return one entry for
\* the topic with that string as its local_files.
C23_TotalLocalFailureIsRecorded ==
    (Raised("file_save") /\ Raised("manual_write")) =>
        /\ local_files = Some(S_FailedToSaveFiles \o E_Timeout)
        /\ error = ""
        /\ pc \in {"append", "after_loop", "returned"}
        /\ pc \in {"after_loop", "returned"} =>
              /\ Len(results) = 1
              /\ results[1].topic = topics[1]
              /\ results[1].local_files = S_FailedToSaveFiles \o E_Timeout
              /\ results[1].status = "ready_for_distribution"
        /\ pc = "returned" =>
              /\ returned.some
              /\ returned.total_created = 1
              /\ returned.results[1].local_files = S_FailedToSaveFiles \o E_Timeout

\* a run has returned its entry after both local tiers failed, the Notion save done
C23_Witness ==
    /\ pc = "returned"
    /\ Raised("file_save")
    /\ Raised("manual_write")
    /\ ~Raised("notion_save")
    /\ returned.total_created = 1
    /\ returned.results[1].local_files = S_FailedToSaveFiles \o E_Timeout

\* C24: notion_available is set by the constructor and by nothing else.  After
\* construction it is true exactly when some connection attempt succeeded;
\* attempts are made only with the API key present and the registry built; the
\* first attempt uses OPENAPI_MCP_HEADERS and a second one, with NOTION_TOKEN,
\* is made only after the first failed; with both failed it is false.  No step
\* of a run changes it or makes another attempt.
C24_AvailabilityComputedOnce ==
    /\ [](pc # "init" =>
            /\ notion_available \in BOOLEAN
            /\ notion_available <=> (\E i \in DOMAIN handshakes : handshakes[i].ok)
            /\ notion_available =>
                  /\ app_config.notion_api_key
                  /\ registry # "none"
                  /\ handshakes[Len(handshakes)].ok
            /\ handshakes = <<>> <=> (~app_config.notion_api_key \/ registry = "none")
            /\ Len(handshakes) <= 2
            /\ Len(handshakes) >= 1 => handshakes[1].method = "OPENAPI_MCP_HEADERS"
            /\ Len(handshakes) = 2 =>
                  /\ ~handshakes[1].ok
                  /\ handshakes[2].method = "NOTION_TOKEN")
    /\ [][pc # "init" => (notion_available' = notion_available /\ handshakes' = handshakes)]_vars

\* a run has saved to Notion with the connection made by the second method
C24_Witness ==
    /\ pc = "returned"
    /\ notion_available
    /\ Len(handshakes) = 2
    /\ Submitted("notion_save")

\* C25: the content record is set once, by the generation step of synthesis,
\* with its eight fields, and no later step changes it: the Notion step, the
\* two local tiers and the assembly of the entry leave it as it is, the plans
\* of the two sinks carry it, and the entry appended and the entry returned
\* hold the record synthesis returned.
C25_RecordIsReadOnly ==
    /\ [][/\ content_data # NoContent => content_data' = content_data
          /\ content_data' # content_data =>
                /\ pc = "content_generation"
                /\ pc' = "notion"
                /\ DOMAIN content_data' = required_fields
                /\ content_data'.long_form_content = content_text'.s]_vars
    /\ [](/\ \A i \in DOMAIN submitted :
                submitted[i].kind \in {"notion_save", "file_save"} =>
                   submitted[i].content_data = content_data
          /\ \A i \in DOMAIN results :
                /\ results[i].content_data = content_data
                /\ results[i].content_data # NoContent
          /\ pc = "returned" =>
                \A i \in DOMAIN returned.results :
                   returned.results[i].content_data = content_data)

\* a run has returned its entry after the Notion plan, the file plan and the
\* manual writes all acted on the record
C25_Witness ==
    /\ pc = "returned"
    /\ Submitted("notion_save")
    /\ Raised("file_save")
    /\ ManualRan
    /\ returned.results[1].content_data = content_data
    /\ content_data.long_form_content = content_text.s

\* discovery has returned in a run without an explicit topic
Discovered == \E i \in DOMAIN env_log : env_log[i].call = "research"

\* C26 as stated: discovery returns between 1 and 10 topics whatever the plan
\* run did, the three fallback topics when the run raised or no numbered line
\* gave a topic, and the run then always goes on to synthesis.
C26_Original ==
    Discovered =>
        /\ Len(trending_topics) \in 1..TopN
        /\ Raised("research") => trending_topics = FallbackTopics
        /\ (topics_text.some /\ TopicsOfLines(SplitLines(topics_text.s)) = <<>>) =>
              trending_topics = FallbackTopics
        /\ pc # "select" => (pc = "content_research" \/ Submitted("content_research"))

\* C26, amended: discovery returns between 1 and 10 topics whatever the plan
\* run did, the three fallback topics when the run raised or no numbered line
\* gave a topic; the run then goes on to synthesis unless the topic drawn has
\* fewer than 5 characters, in which case it fails with the invalid-topic
\* error; it never fails for want of topics.
C26_DiscoveryNeverEmpty ==
    Discovered =>
        /\ Len(trending_topics) \in 1..TopN
        /\ Raised("research") => trending_topics = FallbackTopics
        /\ (topics_text.some /\ TopicsOfLines(SplitLines(topics_text.s)) = <<>>) =>
              trending_topics = FallbackTopics
        /\ error # ERR_NO_TOPICS
        /\ pc # "select" =>
              \/ pc = "content_research"
              \/ Submitted("content_research")
              \/ /\ pc = "raised"
                 /\ error = ERR_INVALID_TOPIC
                 /\ \E i \in DOMAIN trending_topics :
                       Len(Strip(trending_topics[i])) < MinSelectedLen

\* the discovery run raised and synthesis has begun on a fallback topic
C26_Witness ==
    /\ Raised("research")
    /\ trending_topics = FallbackTopics
    /\ Submitted("content_research")
    /\ topics[1] \in {FallbackTopics[i] : i \in DOMAIN FallbackTopics}

\* the place of a plan kind in the fixed order of the stages
StageRank(k) ==
    CASE k = "research"           -> 1
      [] k = "content_research"   -> 2
      [] k = "content_generation" -> 3
      [] k = "notion_save"        -> 4
      [] k = "file_save"          -> 5

\* C27: a run hands at most five plans to the execution service, in the order
\* discovery, research, generation, Notion save, file save and no kind twice;
\* a stage whose run raised is not run again: after a failed research or
\* generation run nothing more is run, after a failed discovery run the
\* fallback topics are in use, after a failed Notion run the failure message
\* is the remote outcome, and after a failed file plan run the only thing
\* that follows is the manual write.
C27_NoRetries ==
    /\ Len(submitted) <= 5
    /\ \A i, j \in DOMAIN submitted :
          i < j => StageRank(submitted[i].kind) < StageRank(submitted[j].kind)
    /\ \A i, j \in DOMAIN env_log : i < j => env_log[i].call # env_log[j].call
    /\ \A i \in DOMAIN env_log :
          env_log[i].raised =>
             CASE env_log[i].call \in {"content_research", "content_generation"} ->
                     /\ i = Len(env_log)
                     /\ pc \in {"after_loop", "raised"}
                     /\ results = <<>>
               [] env_log[i].call = "research" -> trending_topics = FallbackTopics
               [] env_log[i].call = "notion_save" ->
                     /\ notion_url = Some(S_NotionStorageFailed \o E_Timeout)
                     /\ \A j \in DOMAIN env_log :
                           j > i => env_log[j].call \in {"file_save", "manual_write"}
               [] env_log[i].call = "file_save" ->
                     /\ \A j \in DOMAIN env_log : j > i => env_log[j].call = "manual_write"
                     /\ i = Len(env_log) => pc = "manual"
               [] env_log[i].call = "manual_write" -> i = Len(env_log)

\* a run has gone through its five plans, the last two of which raised
C27_Witness ==
    /\ Kinds = <<"research", "content_research", "content_generation", "notion_save",
                 "file_save">>
    /\ Raised("notion_save")
    /\ Raised("file_save")
    /\ pc = "returned"

\* C28: after construction, when notion_available is true and self.portia is
\* not None, self.portia was built with the registry that holds the Notion
\* tools, also when it was rebuilt from the minimal registry.
C28_NotionToolsInService ==
    pc # "init" => ((notion_available /\ portia # "none") => portia = "default+notion")

\* a remote outcome that tells of a failure or of a skip: the two strings the
\* agent sets and the four save_content_to_notion returns
FailureOrSkip(url) ==
    \/ StartsWith(url, S_Failed)
    \/ url = S_SkippedNotionNotAvailable
    \/ StartsWith(url, S_NotionStorageFailed)
    \/ url \in {S_NotionSkippedInvalid, S_NotionSkippedNotAvailable, S_NotionSkippedMissingKey}

\* C29: the end-of-run report prints no failure or skip outcome as a Notion
\* URL: an entry whose notion_url tells of a failure or of a skip gets no
\* 'Notion URL' line.
C29_NoFailureShownAsUrl ==
    pc = "returned" =>
        /\ Len(report) = Len(results)
        /\ \A i \in DOMAIN report :
              FailureOrSkip(results[i].notion_url) => report[i].line = "none"

\* C30: when the local sink has returned the path of the stem, not a failure
\* message, every file of the artifact set of that stem has been written.
C30_SuccessMeansWritten ==
    (local_files.some /\ ~StartsWith(local_files.s, S_FailedToSaveFiles)) =>
        LET artifacts == FilePlanSteps(content_data, filename, output_dir)
        IN  /\ local_files.s = output_dir \o <<"/">> \o filename
            /\ \A k \in DOMAIN artifacts :
                  \E j \in DOMAIN files :
                     /\ files[j].path = artifacts[k].path
                     /\ files[j].content = artifacts[k].content

====
